---- MODULE Spec2Model ----
(***************************************************************************)
(* Model of caseSynchronization/updateTitlesTestRail.js: one run of main() *)
(* against a TestRail service.  Strings are sequences of one-character     *)
(* strings, so that the title cleaning and the identifier search are       *)
(* computed character by character as the regular expressions compute them.*)
(* A state is a point where main() is suspended (an await) or has ended.   *)
(***************************************************************************)
EXTENDS Integers, Sequences, FiniteSets, TLC

\* ------------------------------------------------------------------ bounds
MaxFiles == 2
MaxTests == 2
MaxSuites == 2
MaxPages == 2
RateFileCount == 19
RateFileSize == 10
MaxTitleLen == 5
MaxSnippets == 3

\* ------------------------------------------------------- program constants
CompareDelay == 200
UpdateDelay == 500
PageLimit == 250
RateLimit == 180
RateWindow == 60000
ProgressEvery == 10

\* ------------------------------------------------------------------ strings
Whitespace == {" ", "\t", "\n"}
Digit == {"0", "1", "2", "3", "4", "5", "6", "7", "8", "9"}

RECURSIVE TrimStart(_)
TrimStart(s) ==
  IF s # <<>> /\ Head(s) \in Whitespace THEN TrimStart(Tail(s)) ELSE s

RECURSIVE TrimEnd(_)
TrimEnd(s) ==
  IF s # <<>> /\ s[Len(s)] \in Whitespace
  THEN TrimEnd(SubSeq(s, 1, Len(s) - 1))
  ELSE s

\* String.prototype.trim
Trim(s) == TrimEnd(TrimStart(s))

StartsWith(s, p) == Len(p) <= Len(s) /\ SubSeq(s, 1, Len(p)) = p

DropFirst(s, n) == SubSeq(s, n + 1, Len(s))

\* String.prototype.toLowerCase on the letters the answers use
LowerChar(c) == IF c = "Y" THEN "y" ELSE IF c = "N" THEN "n" ELSE c
ToLowerCase(s) == [i \in 1..Len(s) |-> LowerChar(s[i])]

\* Number.prototype.toString for a natural number
DigitOf(d) == CASE d = 0 -> "0" [] d = 1 -> "1" [] d = 2 -> "2" [] d = 3 -> "3"
                [] d = 4 -> "4" [] d = 5 -> "5" [] d = 6 -> "6" [] d = 7 -> "7"
                [] d = 8 -> "8" [] d = 9 -> "9"

RECURSIVE NumToString(_)
NumToString(n) ==
  IF n < 10 THEN <<DigitOf(n)>> ELSE NumToString(n \div 10) \o <<DigitOf(n % 10)>>

\* Variants of the title cleaning: the id must be followed by whitespace; the
\* title is trimmed before the id is looked for; the id is cut off and
\* nothing else is cleaned
cleanNeedsSeparator(title, id) ==
  IF StartsWith(title, id) /\ Len(title) > Len(id) /\ title[Len(id) + 1] \in Whitespace
  THEN Trim(TrimStart(DropFirst(title, Len(id))))
  ELSE Trim(title)

cleanTrimsFirst(title, id) ==
  IF StartsWith(Trim(title), id)
  THEN Trim(DropFirst(Trim(title), Len(id)))
  ELSE Trim(title)

cleanCutsIdOnly(title, id) ==
  IF StartsWith(title, id) THEN DropFirst(title, Len(id)) ELSE Trim(title)

\* title.replace(new RegExp(`^${id}\\s*`), '').trim()
cleanTestCaseTitle(title, id) ==
  IF StartsWith(title, id)
  THEN Trim(TrimStart(DropFirst(title, Len(id))))
  ELSE Trim(title)

\* Length of the run of digits of s that starts at position i
RECURSIVE DigitRun(_, _)
DigitRun(s, i) ==
  IF i <= Len(s) /\ s[i] \in Digit THEN 1 + DigitRun(s, i + 1) ELSE 0

\* testTitle.match(/C\d+/)?.[0], searched from position i: the leftmost match,
\* its digits taken greedily; the empty string when there is no match
RECURSIVE MatchIdFrom(_, _)
MatchIdFrom(s, i) ==
  IF i > Len(s) THEN <<>>
  ELSE IF s[i] = "C" /\ DigitRun(s, i + 1) > 0
       THEN SubSeq(s, i, i + DigitRun(s, i + 1))
       ELSE MatchIdFrom(s, i + 1)

\* A variant that looks for the id at the start of the title only
MatchIdAtStart(s) ==
  IF s # <<>> /\ s[1] = "C" /\ DigitRun(s, 2) > 0
  THEN SubSeq(s, 1, 1 + DigitRun(s, 2))
  ELSE <<>>

MatchId(s) == MatchIdFrom(s, 1)

\* testId.replace('C', ''): the first "C" of the identifier is removed
RECURSIVE RemoveFirstC(_)
RemoveFirstC(s) ==
  IF s = <<>> THEN <<>>
  ELSE IF Head(s) = "C" THEN Tail(s)
  ELSE <<Head(s)>> \o RemoveFirstC(Tail(s))

\* main 393: the numeric id used in requests
caseNumberOf(testId) == RemoveFirstC(testId)

\* ------------------------------------------------------------------- inputs
\* Literals captured by /test\(['"]([^'"]+)['"]/g in the test files
LitC1a == <<"C", "1", " ", "a">>
LitC1b == <<"C", "1", " ", "b">>
LitC2a == <<"C", "2", " ", " ", "a">>
LitNoId == <<"b">>
Literals == {LitC1a, LitC1b, LitC2a, LitNoId}

SeqsUpTo(S, n) == UNION {[1..k -> S] : k \in 0..n}

\* A test file is the sequence of the literals its test( calls carry; the
\* files found hold at most MaxTests literals between them
TestFiles == SeqsUpTo(Literals, MaxTests)
RECURSIVE TotalLen(_)
TotalLen(fs) == IF fs = <<>> THEN 0 ELSE Len(Head(fs)) + TotalLen(Tail(fs))
FileSets == {fs \in SeqsUpTo(TestFiles, MaxFiles) : TotalLen(fs) <= MaxTests}

\* Answers typed at the confirmation prompt
Answers == {<<"y">>, <<"Y", " ">>, <<"y", "e", "s">>, <<"n">>, <<>>}

\* process.argv and process.env as validateEnvironment reads them
RequiredEnvVars == {"TESTRAIL_HOST", "TESTRAIL_USERNAME", "TESTRAIL_PASSWORD"}
GoodEnv == [testDirPath |-> TRUE, missingVars |-> {}, projectId |-> TRUE,
            dirExists |-> TRUE]
Envs == {GoodEnv,
         [GoodEnv EXCEPT !.testDirPath = FALSE],
         [GoodEnv EXCEPT !.missingVars = {"TESTRAIL_HOST"}],
         [GoodEnv EXCEPT !.missingVars = {"TESTRAIL_USERNAME"}],
         [GoodEnv EXCEPT !.missingVars = {"TESTRAIL_PASSWORD"}],
         [GoodEnv EXCEPT !.projectId = FALSE],
         [GoodEnv EXCEPT !.dirExists = FALSE]}

\* Round-trip time of one remote call in this run, in ms
Latencies == {50, 400}

\* What the service answers to get_case/<n>: a status and, with status 200,
\* the case record, whose title may be missing
RemoteTitles(id) == {id \o <<" ", "a">>, <<"b">>}
RemoteEntries(id) ==
  {[status |-> 200, hasTitle |-> TRUE, title |-> t] : t \in RemoteTitles(id)}
  \cup {[status |-> 200, hasTitle |-> FALSE, title |-> <<>>],
        [status |-> 400, hasTitle |-> FALSE, title |-> <<>>],
        [status |-> 404, hasTitle |-> FALSE, title |-> <<>>]}

\* The service's answer to get_case/<n>: the one already fixed in remote, or
\* any answer when the service has not been asked about n yet
AnswersFor(known, id) ==
  IF caseNumberOf(id) \in DOMAIN known
  THEN {known[caseNumberOf(id)]}
  ELSE RemoteEntries(id)

\* -------------------------------------------------------------------- state
VARIABLES
  env,            \* process.argv / process.env
  latency,        \* round-trip time of a remote call
  remote,         \* case number -> answer of get_case, as far as fixed
  files,          \* the .test.ts files found, in traversal order
  pc,             \* where main() is suspended
  fileIdx,        \* next file of the scan loop
  allTestCases,   \* the Map of main(), in insertion order
  project,        \* id of the project get_project returned
  projectInfo,    \* result of getTestRailInfo: the suites
  offset,         \* makeApiCallWithPagination: offset
  allResults,     \* makeApiCallWithPagination: allResults
  caseIdx,        \* position of the comparison loop in allTestCases
  testRailCase,   \* what getTestRailCase returned for that case
  suiteIdx,       \* position of getTestRailCase's search in projectInfo.suites
  differences,
  errors,
  processedCases,
  answer,         \* what the operator typed at the prompt
  shouldUpdate,
  updIdx,         \* position of the update loop in differences
  successCount,
  failCount,
  calls,          \* every request sent to the service, in order
  now,            \* wall clock, ms
  lastReturn,     \* time the previous remote call returned, -1 before the first
  output,         \* the report sections printed so far
  exitCode,       \* -1 while running
  prompts,        \* number of times the confirmation question was asked
  endpoint,       \* makeApiCallWithPagination called on its own: endpoint
  service,        \* the pages the service holds for that endpoint
  lastResponse,   \* makeApiCallWithPagination: response of the last request
  rawTitle,       \* cleanTestCaseTitle called on its own: title
  rawId,          \* cleanTestCaseTitle called on its own: id
  cleaned,        \* its result
  recleaned,      \* the result of cleaning that result again
  snippets,       \* analyzeTestFile called on its own: what the file was written from
  content,        \* analyzeTestFile: content
  lastIndex,      \* analyzeTestFile: testRegex.lastIndex, counted from 0
  fileCases,      \* analyzeTestFile: testCases
  run,            \* 1 in the first run of the script, 2 in the run that follows it
  updated         \* the ids whose titles the previous run updated

\* getTestRailCase returned null
NullCase == [found |-> FALSE, hasTitle |-> FALSE, title |-> <<>>]
FoundCase(c) == [found |-> TRUE, hasTitle |-> c.hasTitle, title |-> c.title]

inputs == <<env, latency, files>>
setup == <<fileIdx, allTestCases, project, projectInfo>>
cursor == <<caseIdx, suiteIdx, offset, allResults>>
results == <<testRailCase, differences, errors, processedCases>>
updates == <<answer, shouldUpdate, updIdx, successCount, failCount>>
clock == <<now, lastReturn>>
paging == <<endpoint, service, lastResponse>>
cleaning == <<rawTitle, rawId, cleaned, recleaned>>
analysis == <<snippets, content, lastIndex, fileCases>>
unit == <<paging, cleaning, analysis>>
rerun == <<run, updated>>
vars == <<unit, inputs, rerun, remote, pc, setup, cursor, results, updates, calls, clock, output,
          exitCode, prompts>>

\* main() has not run yet
Idle ==
  /\ pc = "Idle"
  /\ fileIdx = 1
  /\ allTestCases = <<>>
  /\ project = 0
  /\ projectInfo = [project_id |-> 0, suites |-> <<>>]
  /\ offset = 0
  /\ allResults = <<>>
  /\ caseIdx = 0
  /\ suiteIdx = 0
  /\ testRailCase = NullCase
  /\ differences = <<>>
  /\ errors = <<>>
  /\ processedCases = 0
  /\ answer = <<>>
  /\ shouldUpdate = FALSE
  /\ updIdx = 0
  /\ successCount = 0
  /\ failCount = 0
  /\ calls = <<>>
  /\ now = 0
  /\ lastReturn = -1
  /\ output = <<>>
  /\ exitCode = -1
  /\ prompts = 0

\* No function is called on its own
NoResponse == [isArray |-> FALSE, field |-> "", items |-> <<>>, next |-> FALSE]
NoPaging == endpoint = "" /\ service = <<>> /\ lastResponse = NoResponse
NoCleaning == rawTitle = <<>> /\ rawId = <<>> /\ cleaned = <<>> /\ recleaned = <<>>
NoAnalysis == snippets = <<>> /\ content = <<>> /\ lastIndex = 0 /\ fileCases = <<>>

\* The script runs for the first time
FirstRun == run = 1 /\ updated = {}

Init ==
  /\ NoPaging /\ NoCleaning /\ NoAnalysis
  /\ env \in Envs
  /\ latency \in Latencies
  /\ files \in FileSets
  /\ ~env.dirExists => files = <<>>
  /\ remote = <<>>
  /\ Idle /\ FirstRun

\* ------------------------------------------------------------ remote calls
\* One request of makeApiCall, sent at time t after the previous call returned
\* at time last
Call(op, arg, off, title, t, last) ==
  [op |-> op, arg |-> arg, offset |-> off, title |-> title, at |-> t,
   gap |-> IF last < 0 THEN -1 ELSE t - last]

\* makeApiCallWithPagination: the items of a response
Items(response) ==
  IF response.isArray \/ response.field \in {"cases", "projects"}
  THEN response.items
  ELSE <<>>

\* makeApiCallWithPagination: the loop ends after this response
PaginationDone(response, limit) ==
  ~response.next \/ Len(Items(response)) < limit

\* ---------------------------------------------------- what the service says
ListedIds == {1, 2}
ProjectIdStr == <<"1">>

\* Pages of get_projects at an offset: a page is full only while the service
\* has further projects
ProjectPages(off) ==
  {[isArray |-> FALSE, field |-> "projects",
    items |-> [i \in 1..n |-> [id |-> off + i]], next |-> nx] :
      n \in IF off + PageLimit < MaxPages * PageLimit
            THEN {0, 1, PageLimit} ELSE {0, 1},
      nx \in BOOLEAN}

\* Pages of get_suites: the suites of the project, as a list
SuitePages ==
  {[isArray |-> TRUE, field |-> "", items |-> [i \in 1..n |-> [id |-> i]],
    next |-> FALSE] : n \in 0..MaxSuites}

\* Pages of get_cases for one suite
CasePages ==
  {[isArray |-> FALSE, field |-> "cases", items |-> its, next |-> FALSE] :
     its \in {<<>>} \cup
       {<<[id |-> n, hasTitle |-> TRUE, title |-> <<"b">>]>> : n \in ListedIds}}

\* ----------------------------------------------------------------- endings
\* A variant that ends the process with exit code 0
ScriptFailedExitsZero(out) ==
  /\ pc' = "Exited"
  /\ exitCode' = 0
  /\ output' = out \o <<"Script failed">>

\* catch (error) of main: 'Script failed', rl.close(), process.exit(1)
ScriptFailed(out) ==
  /\ pc' = "Exited"
  /\ exitCode' = 1
  /\ output' = out \o <<"Script failed">>

\* process.exit(1) called directly, after printing what
ExitWith(what) ==
  /\ pc' = "Exited"
  /\ exitCode' = 1
  /\ output' = Append(output, what)

\* Lines 479-491: the error section, then 'Comparison completed'
Epilogue(errs) ==
  (IF errs # <<>> THEN <<"errors">> ELSE <<>>) \o <<"completed">>

\* ----------------------------------------------------------------- actions
\* validateEnvironment (74-109), then the first request of getTestRailInfo
ArgumentMissing == ~env.testDirPath

ConfigurationError ==
  ~env.testDirPath \/ env.missingVars # {}

validateEnvironment ==
  /\ pc = "Idle"
  /\ IF ConfigurationError
     THEN /\ ExitWith(IF ~env.testDirPath THEN "usage" ELSE "missing variables")
          /\ UNCHANGED <<calls, offset>>
     ELSE /\ pc' = IF env.projectId THEN "get_project" ELSE "get_projects"
          /\ calls' = Append(calls,
               IF env.projectId
               THEN Call("get_project", ProjectIdStr, 0, <<>>, now, lastReturn)
               ELSE Call("get_projects", <<>>, 0, <<>>, now, lastReturn))
          /\ offset' = 0
          /\ UNCHANGED <<output, exitCode>>
  /\ UNCHANGED <<unit, inputs, rerun, remote, setup, caseIdx, suiteIdx, allResults, results, updates,
                 clock, prompts>>

\* getTestRailInfo 210-216: get_project answers; a failure is rethrown and
\* reaches the catch of main
getProjectResponse ==
  /\ pc = "get_project"
  /\ now' = now + latency
  /\ lastReturn' = now'
  /\ \E ok \in BOOLEAN :
       IF ok
       THEN /\ project' = 1
            /\ pc' = "get_suites"
            /\ calls' = Append(calls,
                 Call("get_suites", NumToString(project'), 0, <<>>, now', now'))
            /\ UNCHANGED <<output, exitCode>>
       ELSE /\ ScriptFailed(output)
            /\ UNCHANGED <<project, calls>>
  /\ offset' = 0
  /\ allResults' = <<>>
  /\ UNCHANGED <<unit, inputs, rerun, remote, fileIdx, allTestCases, projectInfo, caseIdx, suiteIdx,
                 results, updates, prompts>>

\* A variant whose loop never moves the offset
getProjectsResponseSameOffset ==
  /\ pc = "get_projects"
  /\ now' = now + latency
  /\ lastReturn' = now'
  /\ \/ /\ ScriptFailed(output)
        /\ UNCHANGED <<calls, offset, allResults>>
     \/ \E response \in ProjectPages(offset) :
          /\ allResults' = allResults \o Items(response)
          /\ IF PaginationDone(response, PageLimit)
             THEN /\ ScriptFailed(Append(output, "available projects"))
                  /\ UNCHANGED <<calls, offset>>
             ELSE /\ offset' = offset
                  /\ pc' = "get_projects"
                  /\ calls' = Append(calls,
                       Call("get_projects", <<>>, offset', <<>>, now', now'))
                  /\ UNCHANGED <<output, exitCode>>
  /\ UNCHANGED <<unit, inputs, rerun, remote, setup, caseIdx, suiteIdx, results, updates, prompts>>

\* getTestRailInfo 218-227: the pages of get_projects, then the throw
getProjectsResponse ==
  /\ pc = "get_projects"
  /\ now' = now + latency
  /\ lastReturn' = now'
  /\ \/ /\ ScriptFailed(output)
        /\ UNCHANGED <<calls, offset, allResults>>
     \/ \E response \in ProjectPages(offset) :
          /\ allResults' = allResults \o Items(response)
          /\ IF PaginationDone(response, PageLimit)
             THEN /\ ScriptFailed(Append(output, "available projects"))
                  /\ UNCHANGED <<calls, offset>>
             ELSE /\ offset' = offset + PageLimit
                  /\ pc' = "get_projects"
                  /\ calls' = Append(calls,
                       Call("get_projects", <<>>, offset', <<>>, now', now'))
                  /\ UNCHANGED <<output, exitCode>>
  /\ UNCHANGED <<unit, inputs, rerun, remote, setup, caseIdx, suiteIdx, results, updates, prompts>>

\* getTestRailInfo 231-243 and main 367-375: the pages of get_suites, then
\* the directory check and the file listing
getSuitesResponse ==
  /\ pc = "get_suites"
  /\ now' = now + latency
  /\ lastReturn' = now'
  /\ \/ /\ ScriptFailed(output)
        /\ UNCHANGED <<calls, offset, allResults, projectInfo>>
     \/ \E response \in SuitePages :
          /\ allResults' = allResults \o Items(response)
          /\ IF PaginationDone(response, PageLimit)
             THEN /\ projectInfo' = [project_id |-> project, suites |-> allResults']
                  /\ IF env.dirExists
                     THEN /\ pc' = "ScanningFiles"
                          /\ UNCHANGED <<output, exitCode>>
                     ELSE ExitWith("directory not found")
                  /\ UNCHANGED <<calls, offset>>
             ELSE /\ offset' = offset + PageLimit
                  /\ pc' = "get_suites"
                  /\ calls' = Append(calls,
                       Call("get_suites", NumToString(project), offset', <<>>,
                            now', now'))
                  /\ UNCHANGED <<output, exitCode, projectInfo>>
  /\ UNCHANGED <<unit, inputs, rerun, remote, fileIdx, allTestCases, project, caseIdx, suiteIdx,
                 results, updates, prompts>>

\* A variant that keeps the value an existing key already has
MapSetKeepsFirst(map, rec) ==
  IF \E i \in 1..Len(map) : map[i].id = rec.id THEN map ELSE Append(map, rec)

\* Map.prototype.set: an existing key keeps its place and takes the new value
MapSet(map, rec) ==
  IF \E i \in 1..Len(map) : map[i].id = rec.id
  THEN [i \in 1..Len(map) |-> IF map[i].id = rec.id THEN rec ELSE map[i]]
  ELSE Append(map, rec)

\* analyzeTestFile 327-340 over the literals of one file, into map
RECURSIVE analyzeLiterals(_, _, _)
analyzeLiterals(lits, path, map) ==
  IF lits = <<>> THEN map
  ELSE LET testTitle == Head(lits)
           testId == MatchId(testTitle)
       IN analyzeLiterals(Tail(lits), path,
            IF testId # <<>>
            THEN MapSet(map, [id |-> testId,
                              title |-> cleanTestCaseTitle(testTitle, testId),
                              originalTitle |-> testTitle,
                              filePath |-> path])
            ELSE map)

analyzeTestFile(path) == analyzeLiterals(files[path], path, <<>>)

\* main 380-382: allTestCases.set(id, data) for every entry of testCases
RECURSIVE MergeCases(_, _)
MergeCases(all, testCases) ==
  IF testCases = <<>> THEN all
  ELSE MergeCases(MapSet(all, Head(testCases)), Tail(testCases))

\* main 378-383: one iteration of the loop over testFiles
ScanFile ==
  /\ pc = "ScanningFiles"
  /\ fileIdx <= Len(files)
  /\ allTestCases' = MergeCases(allTestCases, analyzeTestFile(fileIdx))
  /\ fileIdx' = fileIdx + 1
  /\ UNCHANGED <<unit, inputs, rerun, remote, pc, project, projectInfo, cursor, results, updates,
                 calls, clock, output, exitCode, prompts>>

\* main 429: the update prompt is reached only with differences
HasDifferences(diffs) == Len(diffs) > 0

\* main 392 and 429-449, 475-491: the head of the comparison loop at case k,
\* reached at time t; past the last case the results are printed and the
\* operator is asked, or the run completes
CompareFrom(k, t, last) ==
  IF k <= Len(allTestCases)
  THEN /\ pc' = "get_case"
       /\ caseIdx' = k
       /\ calls' = Append(calls,
            Call("get_case", caseNumberOf(allTestCases[k].id), 0, <<>>, t, last))
       /\ UNCHANGED <<output, exitCode, prompts>>
  ELSE /\ UNCHANGED <<caseIdx, calls>>
       /\ IF HasDifferences(differences)
          THEN /\ pc' = "prompt"
               /\ output' = output \o <<"differences", "prompt">>
               /\ prompts' = prompts + 1
               /\ UNCHANGED exitCode
          ELSE /\ pc' = "Done"
               /\ output' = output \o <<"no differences">> \o Epilogue(errors)
               /\ exitCode' = 0
               /\ UNCHANGED prompts

ScanStopsAfterFirstFile == fileIdx > 1 \/ Len(files) = 0

\* main 378: every file has been analyzed
ScanComplete == fileIdx > Len(files)

\* main 385-392: after the last file, the comparison loop starts
StartComparing ==
  /\ pc = "ScanningFiles"
  /\ ScanComplete
  /\ CompareFrom(1, now, lastReturn)
  /\ UNCHANGED <<unit, inputs, rerun, remote, setup, suiteIdx, offset, allResults, results, updates,
                 clock>>

TitlesDifferByLength(cleanTestRailTitle, fileTitle) ==
  Len(cleanTestRailTitle) # Len(fileTitle)

\* main 413: the titles differ
TitlesDiffer(cleanTestRailTitle, fileTitle) == cleanTestRailTitle # fileTitle

LookupFailedAborts(k, out) ==
  /\ ScriptFailed(out)
  /\ UNCHANGED <<differences, errors>>

\* A variant that records the failed case in both lists
LookupFailedAlsoDiffers(k, out) ==
  /\ errors' = Append(errors, [id |-> allTestCases[k].id,
                               filePath |-> allTestCases[k].filePath,
                               fileTitle |-> allTestCases[k].title])
  /\ differences' = Append(differences,
       [id |-> allTestCases[k].id,
        caseNumber |-> caseNumberOf(allTestCases[k].id),
        filePath |-> allTestCases[k].filePath,
        fileTitle |-> allTestCases[k].title,
        fileOriginalTitle |-> allTestCases[k].originalTitle,
        testRailTitle |-> <<>>,
        testRailCleanTitle |-> <<>>])
  /\ pc' = "delay200"
  /\ output' = out
  /\ UNCHANGED exitCode

\* main 401-409: the lookup returned null
LookupFailed(k, out) ==
  /\ errors' = Append(errors, [id |-> allTestCases[k].id,
                               filePath |-> allTestCases[k].filePath,
                               fileTitle |-> allTestCases[k].title])
  /\ pc' = "delay200"
  /\ output' = out
  /\ UNCHANGED <<differences, exitCode>>

TitleMissingSkipsCase(k, out) ==
  /\ pc' = "delay200"
  /\ output' = out
  /\ UNCHANGED <<differences, errors, exitCode>>

\* main 411: a record without a title makes cleanTestCaseTitle throw
\* (undefined.replace), which the catch of main receives
TitleMissing(k, out) ==
  /\ ScriptFailed(out)
  /\ UNCHANGED <<differences, errors>>

\* main 396-425: what follows the return of getTestRailCase for case k
AfterLookup(k, case) ==
  LET fileData == allTestCases[k]
      testId == fileData.id
      n == processedCases + 1
      out == IF n % ProgressEvery = 0 THEN Append(output, "progress") ELSE output
  IN /\ testRailCase' = case
     /\ processedCases' = n
     /\ UNCHANGED <<calls, prompts>>
     /\ IF ~case.found
        THEN LookupFailed(k, out)
        ELSE IF ~case.hasTitle
        THEN TitleMissing(k, out)
        ELSE LET cleanTestRailTitle == cleanTestCaseTitle(case.title, testId)
             IN /\ differences' =
                     IF TitlesDiffer(cleanTestRailTitle, fileData.title)
                     THEN Append(differences,
                            [id |-> testId,
                             caseNumber |-> caseNumberOf(testId),
                             filePath |-> fileData.filePath,
                             fileTitle |-> fileData.title,
                             fileOriginalTitle |-> fileData.originalTitle,
                             testRailTitle |-> case.title,
                             testRailCleanTitle |-> cleanTestRailTitle])
                     ELSE differences
                /\ pc' = "delay200"
                /\ output' = out
                /\ UNCHANGED <<errors, exitCode>>

SearchesSuitesOnAnyError(status) == status # 200

\* getTestRailCase 260: only status 400 starts the search through the suites
SearchesSuites(status) == status = 400

\* getTestRailCase 263-268: the request that lists the cases of suite i
SearchSuite(i, off, t) ==
  /\ pc' = "get_cases"
  /\ suiteIdx' = i
  /\ offset' = off
  /\ calls' = Append(calls,
       Call("get_cases", NumToString(projectInfo.suites[i].id), off, <<>>, t, t))
  /\ UNCHANGED <<testRailCase, differences, errors, processedCases, output,
                 exitCode, prompts>>

\* getTestRailCase 255-260, 278-279: get_case answers
getCaseResponse ==
  /\ pc = "get_case"
  /\ now' = now + latency
  /\ lastReturn' = now'
  /\ \E entry \in AnswersFor(remote, allTestCases[caseIdx].id) :
       /\ remote' = (caseNumberOf(allTestCases[caseIdx].id) :> entry) @@ remote
       /\ IF entry.status = 200
          THEN /\ AfterLookup(caseIdx, FoundCase(entry))
               /\ UNCHANGED <<suiteIdx, offset, allResults>>
          ELSE IF SearchesSuites(entry.status) /\ projectInfo.suites # <<>>
          THEN /\ SearchSuite(1, 0, now')
               /\ allResults' = <<>>
          ELSE /\ AfterLookup(caseIdx, NullCase)
               /\ UNCHANGED <<suiteIdx, offset, allResults>>
  /\ UNCHANGED <<unit, inputs, rerun, setup, caseIdx, updates>>

\* cases.find((c) => c.id.toString() === caseId): the first such case
FindCase(cases, caseId) ==
  LET hits == {i \in 1..Len(cases) : NumToString(cases[i].id) = caseId}
  IN IF hits = {} THEN NullCase
     ELSE FoundCase(cases[CHOOSE i \in hits : \A j \in hits : i <= j])

\* A variant that gives the search up after the first suite without a match
NextSuiteGivesUp(t) ==
  /\ AfterLookup(caseIdx, NullCase)
  /\ UNCHANGED <<suiteIdx, offset, allResults>>

\* getTestRailCase 263-276: the search moves past suite suiteIdx
NextSuite(t) ==
  IF suiteIdx < Len(projectInfo.suites)
  THEN /\ SearchSuite(suiteIdx + 1, 0, t)
       /\ allResults' = <<>>
  ELSE /\ AfterLookup(caseIdx, NullCase)
       /\ UNCHANGED <<suiteIdx, offset, allResults>>

\* getTestRailCase 263-276: a page of get_cases answers, or the listing fails
getCasesResponse ==
  /\ pc = "get_cases"
  /\ now' = now + latency
  /\ lastReturn' = now'
  /\ \/ NextSuite(now')
     \/ \E response \in CasePages :
          LET all == allResults \o Items(response)
              caseId == caseNumberOf(allTestCases[caseIdx].id)
          IN IF ~PaginationDone(response, PageLimit)
             THEN /\ SearchSuite(suiteIdx, offset + PageLimit, now')
                  /\ allResults' = all
             ELSE IF FindCase(all, caseId).found
             THEN /\ AfterLookup(caseIdx, FindCase(all, caseId))
                  /\ allResults' = all
                  /\ UNCHANGED <<suiteIdx, offset>>
             ELSE NextSuite(now')
  /\ UNCHANGED <<unit, inputs, rerun, remote, setup, caseIdx, updates>>

\* main 407, 425: the 200 ms pause is over; next case, or the results
compareDelayElapsed ==
  /\ pc = "delay200"
  /\ now' = now + CompareDelay
  /\ CompareFrom(caseIdx + 1, now', lastReturn)
  /\ UNCHANGED <<unit, inputs, rerun, remote, setup, suiteIdx, offset, allResults, results, updates,
                 lastReturn>>

\* A variant that takes every answer beginning with y for a yes
AnswerBeginsWithY(ans) == StartsWith(Trim(ToLowerCase(ans)), <<"y">>)

\* askForConfirmation 115: answer.toLowerCase().trim() === 'y'
askForConfirmation(ans) == Trim(ToLowerCase(ans)) = <<"y">>

newTitleFromTestRail(diff) == diff.testRailCleanTitle

\* main 457: the title sent for a difference
newTitleOf(diff) == diff.fileTitle

\* A variant that sends the updates of all remaining differences at once
UpdateAllAtOnce(i, t, last) ==
  IF i <= Len(differences)
  THEN /\ pc' = "update_case"
       /\ updIdx' = Len(differences)
       /\ calls' = calls \o
            [j \in 1..(Len(differences) - i + 1) |->
               Call("update_case", differences[i + j - 1].caseNumber, 0,
                    differences[i + j - 1].fileTitle, t, last)]
       /\ UNCHANGED <<output, exitCode>>
  ELSE /\ pc' = "Done"
       /\ output' = output \o <<"update summary">> \o Epilogue(errors)
       /\ exitCode' = 0
       /\ UNCHANGED <<updIdx, calls>>

\* main 456-458 and 469-471, 479-491: the head of the update loop at
\* difference i, reached at time t; past the last one the summaries are printed
UpdateFrom(i, t, last) ==
  IF i <= Len(differences)
  THEN /\ pc' = "update_case"
       /\ updIdx' = i
       /\ calls' = Append(calls,
            Call("update_case", differences[i].caseNumber, 0,
                 newTitleOf(differences[i]), t, last))
       /\ UNCHANGED <<output, exitCode>>
  ELSE /\ pc' = "Done"
       /\ output' = output \o <<"update summary">> \o Epilogue(errors)
       /\ exitCode' = 0
       /\ UNCHANGED <<updIdx, calls>>

ProceedsAlways(confirmed) == TRUE

\* main 451: the updates run only when the operator confirmed
ProceedsWithUpdates(confirmed) == confirmed

\* main 449-477: the operator answers the question
answerPrompt ==
  /\ pc = "prompt"
  /\ \E ans \in Answers :
       /\ answer' = ans
       /\ shouldUpdate' = askForConfirmation(ans)
       /\ IF ProceedsWithUpdates(shouldUpdate')
          THEN UpdateFrom(1, now, lastReturn)
          ELSE /\ pc' = "Done"
               /\ output' = output \o <<"update cancelled">> \o Epilogue(errors)
               /\ exitCode' = 0
               /\ UNCHANGED <<updIdx, calls>>
  /\ UNCHANGED <<unit, inputs, rerun, remote, setup, cursor, results, successCount, failCount, clock,
                 prompts>>

CountUpdateStopsOnFailure(ok) ==
  /\ successCount' = IF ok THEN successCount + 1 ELSE successCount
  /\ failCount' = IF ok THEN failCount ELSE failCount + 1
  /\ pc' = IF ok THEN "delay500" ELSE "Done"

\* main 460-464: a truthy result counts as a success, null as a failure
CountUpdate(ok) ==
  /\ successCount' = IF ok THEN successCount + 1 ELSE successCount
  /\ failCount' = IF ok THEN failCount ELSE failCount + 1
  /\ pc' = "delay500"

\* updateTestRailCase 186-191: an update that succeeded has stored the title
\* sent, which get_case answers from then on
TitleStored(known, diff) ==
  IF diff.caseNumber \in DOMAIN known /\ known[diff.caseNumber].status = 200
  THEN [known EXCEPT ![diff.caseNumber].title = newTitleOf(diff)]
  ELSE known

\* updateTestRailCase 183-198 and main 458-466: update_case answers; a
\* failure is caught inside updateTestRailCase and returned as null
updateCaseResponse ==
  /\ pc = "update_case"
  /\ now' = now + latency
  /\ lastReturn' = now'
  /\ \E ok \in BOOLEAN :
       /\ CountUpdate(ok)
       /\ remote' = IF ok THEN TitleStored(remote, differences[updIdx]) ELSE remote
  /\ UNCHANGED <<unit, inputs, rerun, setup, cursor, results, answer, shouldUpdate, updIdx,
                 calls, output, exitCode, prompts>>

\* main 466: the 500 ms pause is over; next difference, or the summaries
updateDelayElapsed ==
  /\ pc = "delay500"
  /\ now' = now + UpdateDelay
  /\ UpdateFrom(updIdx + 1, now', lastReturn)
  /\ UNCHANGED <<unit, inputs, rerun, remote, setup, cursor, results, answer, shouldUpdate,
                 successCount, failCount, lastReturn, prompts>>

Next ==
  \/ validateEnvironment
  \/ getProjectResponse
  \/ getProjectsResponse
  \/ getSuitesResponse
  \/ ScanFile
  \/ StartComparing
  \/ getCaseResponse
  \/ getCasesResponse
  \/ compareDelayElapsed
  \/ answerPrompt
  \/ updateCaseResponse
  \/ updateDelayElapsed

Spec == Init /\ [][Next]_vars

\* ------------------------------------------------------------ claim helpers
LookupOps == {"get_case", "get_cases"}
CallsOf(ops) == SelectSeq(calls, LAMBDA c : c.op \in ops)
UpdateCalls == CallsOf({"update_case"})
InDifferences(id) == \E i \in 1..Len(differences) : differences[i].id = id
InErrors(id) == \E i \in 1..Len(errors) : errors[i].id = id
TableTitle(id) ==
  LET i == CHOOSE i \in 1..Len(allTestCases) : allTestCases[i].id = id
  IN allTestCases[i].title
Summaries == {"differences", "no differences", "errors", "update summary",
              "update cancelled", "completed"}
Printed(what) == \E i \in 1..Len(output) : output[i] = what

\* C1: a lookup that yields no record appends that case to the error list,
\* records no Difference for it, does not end the run, and the loop then goes
\* on with the next case.
C1_FailedLookupStep ==
  (processedCases' = processedCases + 1 /\ ~testRailCase'.found) =>
     /\ errors' = Append(errors, [id |-> allTestCases[caseIdx].id,
                                  filePath |-> allTestCases[caseIdx].filePath,
                                  fileTitle |-> allTestCases[caseIdx].title])
     /\ differences' = differences
     /\ pc' = "delay200"
     /\ exitCode' = -1

C1_NextCaseStep ==
  (pc = "delay200" /\ caseIdx < Len(allTestCases)) =>
     /\ pc' = "get_case"
     /\ caseIdx' = caseIdx + 1
     /\ calls' = Append(calls, calls'[Len(calls')])
     /\ calls'[Len(calls')].op = "get_case"
     /\ calls'[Len(calls')].arg = caseNumberOf(allTestCases[caseIdx + 1].id)

C1_FailedLookupContinues ==
  [][C1_FailedLookupStep /\ C1_NextCaseStep]_vars

\* C1 witness: the first case failed its lookup, is in the error list and not
\* in the difference list, and the second case has been looked up since.
C1_Witness ==
  /\ processedCases = 2
  /\ Len(errors) >= 1
  /\ errors[1].id = allTestCases[1].id
  /\ ~InDifferences(allTestCases[1].id)
  /\ testRailCase.found

\* C2: for a case whose remote record (with a title) was fetched, a Difference
\* is recorded exactly when the cleaned remote title is not equal to the local
\* normalized title, and it carries the cleaned remote title; remote "C1 a"
\* against local "a" records nothing, remote "b" against local "a" records a
\* Difference with testRailCleanTitle "b".
C2_DifferenceIffTitlesDiffer ==
  (pc = "delay200" /\ testRailCase.found /\ testRailCase.hasTitle) =>
    LET local == allTestCases[caseIdx]
        clean == cleanTestCaseTitle(testRailCase.title, local.id)
    IN /\ InDifferences(local.id) <=> clean # local.title
       /\ ~InErrors(local.id)
       /\ InDifferences(local.id) =>
            /\ differences[Len(differences)].id = local.id
            /\ differences[Len(differences)].testRailCleanTitle = clean
            /\ differences[Len(differences)].fileTitle = local.title
       /\ (local.id = <<"C", "1">> /\ local.title = <<"a">>
             /\ testRailCase.title = <<"C", "1", " ", "a">>)
            => ~InDifferences(local.id)
       /\ (local.id = <<"C", "1">> /\ local.title = <<"a">>
             /\ testRailCase.title = <<"b">>)
            => /\ InDifferences(local.id)
               /\ differences[Len(differences)].testRailCleanTitle = <<"b">>

\* C2 witness: two records were fetched, one equal after cleaning and one not.
C2_Witness ==
  /\ pc = "delay200"
  /\ processedCases = 2
  /\ errors = <<>>
  /\ Len(differences) = 1
  /\ testRailCase.found /\ testRailCase.hasTitle
  /\ ~InDifferences(allTestCases[2].id)

\* C3: an update call is sent only when there are differences and the operator
\* confirmed; the question is asked at most once; after a declined question,
\* and in a run without differences, the run is Done with no update call.
C3_UpdateOnlyWhenConfirmed ==
  /\ prompts <= 1
  /\ Len(UpdateCalls) > 0 =>
       /\ Len(differences) > 0
       /\ prompts = 1
       /\ askForConfirmation(answer)
  /\ (prompts = 1 /\ pc # "prompt" /\ ~askForConfirmation(answer)) =>
       pc = "Done" /\ Len(UpdateCalls) = 0
  /\ (pc = "Done" /\ Len(differences) = 0) =>
       prompts = 0 /\ Len(UpdateCalls) = 0

\* C3 witness: the operator declined with differences pending and the run
\* ended without an update call.
C3_Witness ==
  /\ pc = "Done"
  /\ Len(differences) = 2
  /\ answer = <<"y", "e", "s">>
  /\ Len(UpdateCalls) = 0

\* C4: the k-th update call is addressed to the numeric id of the k-th
\* Difference and carries the normalized title the case table holds for it.
C4_UpdateSendsLocalTitle ==
  \A k \in 1..Len(UpdateCalls) :
    /\ k <= Len(differences)
    /\ UpdateCalls[k].arg = RemoveFirstC(differences[k].id)
    /\ UpdateCalls[k].title = TableTitle(differences[k].id)

\* C4 witness: an update was sent whose title is neither the remote title, raw
\* or cleaned, nor the raw local title.
C4_Witness ==
  /\ Len(UpdateCalls) = 2
  /\ \A k \in 1..2 :
       /\ UpdateCalls[k].title # differences[k].testRailTitle
       /\ UpdateCalls[k].title # differences[k].testRailCleanTitle
       /\ UpdateCalls[k].title # differences[k].fileOriginalTitle

\* C5: the update calls follow the difference list, one per Difference, and a
\* failed update does not stop the rest: the counters add up to the number of
\* answered update calls, and to the number of Differences when the phase ends.
C5_EveryDifferenceUpdatedOnce ==
  /\ Len(UpdateCalls) <= Len(differences)
  /\ \A k \in 1..Len(UpdateCalls) :
       UpdateCalls[k].arg = differences[k].caseNumber
  /\ successCount + failCount =
       Len(UpdateCalls) - (IF pc = "update_case" THEN 1 ELSE 0)
  /\ (pc = "Done" /\ askForConfirmation(answer)) =>
       /\ Len(UpdateCalls) = Len(differences)
       /\ successCount + failCount = Len(differences)

\* C5 witness: the first update failed and the second was sent all the same.
C5_Witness ==
  /\ pc = "update_case"
  /\ updIdx = 2
  /\ failCount = 1
  /\ Len(UpdateCalls) = 2

DirectBefore(i) ==
  calls[CHOOSE j \in 1..i :
          /\ calls[j].op = "get_case"
          /\ \A m \in (j + 1)..i : calls[m].op # "get_case"]

C7_DelayAfterEveryCall ==
  \A i \in 2..Len(calls) :
    /\ calls[i - 1].op \in LookupOps => calls[i].gap >= CompareDelay
    /\ calls[i - 1].op = "update_case" => calls[i].gap >= UpdateDelay

\* C8: no 60-second window of a run holds more than 180 requests; the window
\* that ends with the latest request is the one each new request can overfill.
C8_WithinRateLimit ==
  LET n == Len(calls)
  IN n > 0 =>
       Cardinality({j \in 1..n : calls[j].at > calls[n].at - RateWindow})
         <= RateLimit

\* The phases of the run
Phase(p) ==
  CASE p = "Idle" -> "Idle"
    [] p \in {"get_project", "get_projects", "get_suites"} -> "ResolvingProject"
    [] p = "ScanningFiles" -> "ScanningFiles"
    [] p \in {"get_case", "get_cases", "delay200"} -> "ComparingCases"
    [] p = "prompt" -> "AwaitingConfirmation"
    [] p \in {"update_case", "delay500"} -> "Updating"
    [] p = "Done" -> "Done"
    [] p = "Exited" -> "Exited"

\* Order of the phases; the report without differences (ReportingOnly) is
\* printed in the step that ends the comparison, so that step leads to Done
PhaseOrder ==
  {<<"Idle", "ResolvingProject">>,
   <<"ResolvingProject", "ScanningFiles">>,
   <<"ScanningFiles", "ComparingCases">>,
   <<"ScanningFiles", "Done">>,
   <<"ComparingCases", "AwaitingConfirmation">>,
   <<"ComparingCases", "Done">>,
   <<"AwaitingConfirmation", "Updating">>,
   <<"AwaitingConfirmation", "Done">>,
   <<"Updating", "Done">>}

OpRank(op) ==
  CASE op \in {"get_project", "get_projects", "get_suites"} -> 1
    [] op \in LookupOps -> 2
    [] op = "update_case" -> 3

C9_Order ==
  \* project resolution is complete before a file is scanned
  /\ (fileIdx > 1 \/ allTestCases # <<>>) =>
       /\ projectInfo.project_id = project /\ project # 0
       /\ Phase(pc) \notin {"Idle", "ResolvingProject"}
  \* all files are scanned before the first lookup
  /\ Len(CallsOf(LookupOps)) > 0 => fileIdx = Len(files) + 1
  \* every lookup is complete before the question is asked
  /\ prompts > 0 =>
       /\ processedCases = Len(allTestCases)
       /\ Phase(pc) \notin {"ScanningFiles", "ComparingCases"}
  \* requests are sent in the order resolution, lookups, updates
  /\ \A i \in 2..Len(calls) : OpRank(calls[i - 1].op) <= OpRank(calls[i].op)
  \* a run without differences ends without the question
  /\ (pc = "Done" /\ Printed("no differences")) =>
       differences = <<>> /\ prompts = 0

C9_Step ==
  \/ Phase(pc') = Phase(pc)
  \/ <<Phase(pc), Phase(pc')>> \in PhaseOrder
  \/ Phase(pc') = "Exited" /\ Phase(pc) # "Done"

\* C9: the run goes through its phases in the order Idle, ResolvingProject,
\* ScanningFiles, ComparingCases, then Done directly or AwaitingConfirmation
\* and optionally Updating before Done; resolution ends before the scan, the
\* scan before the first lookup, the lookups before the question, and no
\* lookup follows an update.
C9_PhasesInOrder == []C9_Order /\ [][C9_Step]_vars

\* C9 witness: a run that went through every phase, with two files scanned,
\* lookups and updates sent.
C9_Witness ==
  /\ pc = "Done"
  /\ Len(files) = 2
  /\ Len(CallsOf(LookupOps)) >= 2
  /\ Len(UpdateCalls) >= 1
  /\ prompts = 1

C10_Aborted ==
  exitCode = 1 =>
    /\ pc = "Exited"
    /\ \A i \in 1..Len(output) : output[i] \notin Summaries

C10_ThrowInLoop ==
  (testRailCase.found /\ ~testRailCase.hasTitle) =>
    /\ pc = "Exited"
    /\ exitCode = 1
    /\ output[Len(output)] = "Script failed"
    /\ processedCases = caseIdx
    /\ Len(CallsOf({"get_case"})) = caseIdx
    /\ Len(UpdateCalls) = 0

C10_NothingAfterAbort ==
  pc = "Exited" => UNCHANGED <<pc, exitCode, calls, output, prompts>>

\* C10: an error that escapes a phase (a failed project resolution, a throw in
\* the comparison loop) ends the run at once with exit code 1: no request is
\* sent afterwards and no difference, error or update summary is printed.
C10_FatalErrorAborts ==
  [](C10_Aborted /\ C10_ThrowInLoop) /\ [][C10_NothingAfterAbort]_vars

\* C10 witness: the record of the first of two cases had no title; the run
\* ended with exit code 1 and the second case was never looked up.
C10_Witness ==
  /\ pc = "Exited"
  /\ testRailCase.found /\ ~testRailCase.hasTitle
  /\ caseIdx = 1
  /\ Len(allTestCases) = 2
  /\ Len(calls) = 3

\* C11: a run started without the test-directory argument, or with any of
\* TESTRAIL_HOST, TESTRAIL_USERNAME, TESTRAIL_PASSWORD missing, ends at once
\* with exit code 1: it has sent no request, scanned no file and asked nothing
C11_Misconfigured ==
  ~env.testDirPath \/ env.missingVars \cap RequiredEnvVars # {}

C11_ConfigurationErrorIsFatal ==
  (C11_Misconfigured /\ pc # "Idle") =>
    /\ pc = "Exited"
    /\ exitCode = 1
    /\ calls = <<>>
    /\ fileIdx = 1
    /\ allTestCases = <<>>
    /\ prompts = 0
    /\ Len(output) = 1

C11_Witness ==
  /\ env.missingVars = {"TESTRAIL_PASSWORD"}
  /\ files # <<>>
  /\ pc = "Exited"
  /\ output = <<"missing variables">>

\* ------------------------------------------------- a run over a large suite
\* More tests than the service allows requests per minute, spread over
\* RateFileCount files of RateFileSize tests, every title already equal to the
\* title the service holds
RateCases == RateFileCount * RateFileSize
RateLiteral(n) == <<"C">> \o NumToString(n) \o <<" ", "a">>
RateFiles ==
  [f \in 1..RateFileCount |->
     [j \in 1..RateFileSize |-> RateLiteral((f - 1) * RateFileSize + j)]]
RateRemote ==
  [number \in {NumToString(n) : n \in 1..RateCases} |->
     [status |-> 200, hasTitle |-> TRUE,
      title |-> <<"C">> \o number \o <<" ", "a">>]]

InitRate ==
  \/ Init
  \/ /\ env = GoodEnv
     /\ latency \in Latencies
     /\ files = RateFiles
     /\ remote = RateRemote
     /\ Idle /\ FirstRun
     /\ NoPaging /\ NoCleaning /\ NoAnalysis

SpecRate == InitRate /\ [][Next]_vars

\* ------------------------------------- makeApiCallWithPagination on its own
\* The three endpoints the script fetches page by page (222, 232, 265), and
\* the field under which the service lists the items of each
PaginatedEndpoints == {"get_projects", "get_suites", "get_cases"}
FieldOf(ep) ==
  CASE ep = "get_projects" -> "projects"
    [] ep = "get_suites" -> "suites"
    [] ep = "get_cases" -> "cases"

\* The k-th page the service may hold: empty, one item or PageLimit items,
\* sent as a bare list (which has no _links) or as an object with the list
\* under the endpoint's field and, or not, a next link
PageItems(k, n) == [i \in 1..n |-> [id |-> (k - 1) * PageLimit + i]]
ServicePages(ep, k) ==
  {[isArray |-> TRUE, field |-> "", items |-> PageItems(k, n), next |-> FALSE] :
     n \in {0, 1, PageLimit}}
  \cup {[isArray |-> FALSE, field |-> FieldOf(ep), items |-> PageItems(k, n),
          next |-> nx] : n \in {0, 1, PageLimit}, nx \in BOOLEAN}

RECURSIVE Services(_, _)
Services(ep, k) ==
  IF k = 0 THEN {<<>>}
  ELSE {Append(s, p) : s \in Services(ep, k - 1), p \in ServicePages(ep, k)}

\* What the service answers to a request with this offset
PageAt(off) ==
  LET k == (off \div PageLimit) + 1
  IN IF k <= Len(service) THEN service[k]
     ELSE [isArray |-> FALSE, field |-> FieldOf(endpoint), items |-> <<>>,
           next |-> FALSE]

InitPages ==
  /\ endpoint \in PaginatedEndpoints
  /\ service \in Services(endpoint, MaxPages)
  /\ lastResponse = NoResponse
  /\ NoCleaning /\ NoAnalysis
  /\ env = GoodEnv /\ latency \in Latencies /\ files = <<>> /\ remote = <<>>
  /\ Idle /\ FirstRun

\* 158-165: offset = 0, allResults = [], the first request
firstPageRequest ==
  /\ pc = "Idle"
  /\ pc' = "page"
  /\ offset' = 0
  /\ allResults' = <<>>
  /\ calls' = Append(calls, Call(endpoint, <<>>, 0, <<>>, now, lastReturn))
  /\ UNCHANGED <<unit, inputs, rerun, remote, setup, caseIdx, suiteIdx, results, updates,
                 clock, output, exitCode, prompts>>

\* 165-178: a response arrives; its items are appended; the loop ends or
\* sends the request for the next offset
pageResponse ==
  /\ pc = "page"
  /\ now' = now + latency
  /\ lastReturn' = now'
  /\ lastResponse' = PageAt(offset)
  /\ allResults' = allResults \o Items(lastResponse')
  /\ IF PaginationDone(lastResponse', PageLimit)
     THEN /\ pc' = "Done"
          /\ UNCHANGED <<calls, offset>>
     ELSE /\ pc' = "page"
          /\ offset' = offset + PageLimit
          /\ calls' = Append(calls, Call(endpoint, <<>>, offset', <<>>, now', now'))
  /\ UNCHANGED <<endpoint, service, cleaning, analysis, inputs, rerun, remote, setup,
                 caseIdx, suiteIdx, results, updates, output, exitCode, prompts>>

NextPages == firstPageRequest \/ pageResponse

SpecPages == InitPages /\ [][NextPages]_vars

\* C12: the first request carries offset 0; a page of PageLimit items with a
\* next link is followed by exactly one more request, at offset + PageLimit;
\* any other page ends the fetch without a further request
C12_Continues(page) == Len(page.items) = PageLimit /\ page.next

C12_Step ==
  pc = "page" =>
    IF C12_Continues(lastResponse')
    THEN /\ Len(calls') = Len(calls) + 1
         /\ calls'[Len(calls')].op = endpoint
         /\ calls'[Len(calls')].offset = offset + PageLimit
    ELSE calls' = calls /\ pc' = "Done"

C12_PaginationStep ==
  /\ [](calls # <<>> => calls[1].offset = 0)
  /\ [][C12_Step]_vars

\* C13: when the fetch has ended, allResults is the item lists of the pages
\* fetched, one after the other in request order, whether a page came as a
\* list or as an object, for each of the three endpoints
RECURSIVE C13_ItemsOfPages(_)
C13_ItemsOfPages(k) ==
  IF k = 0 THEN <<>>
  ELSE C13_ItemsOfPages(k - 1) \o PageAt((k - 1) * PageLimit).items

C13_ResultIsConcatenation ==
  (endpoint # "" /\ pc = "Done") => allResults = C13_ItemsOfPages(Len(calls))

\* ------------------------------------------- cleanTestCaseTitle on its own
\* Titles over a small alphabet, and two ids of which one begins with the other
TitleChars == {"C", "c", "1", "2", " ", "a"}
CleanTitles == SeqsUpTo(TitleChars, MaxTitleLen)
CleanIds == {<<"C", "1">>, <<"C", "1", "2">>}

InitClean ==
  /\ rawTitle \in CleanTitles
  /\ rawId \in CleanIds
  /\ cleaned = <<>> /\ recleaned = <<>>
  /\ NoPaging /\ NoAnalysis
  /\ env = GoodEnv /\ latency = 50 /\ files = <<>> /\ remote = <<>>
  /\ Idle /\ FirstRun

\* cleanTestCaseTitle(title, id)
cleanTitle ==
  /\ pc = "Idle"
  /\ cleaned' = cleanTestCaseTitle(rawTitle, rawId)
  /\ pc' = "cleaned"
  /\ UNCHANGED <<rawTitle, rawId, recleaned, paging, analysis, inputs, rerun, remote, setup,
                 cursor, results, updates, calls, clock, output, exitCode, prompts>>

\* cleanTestCaseTitle applied to its own result, as main 411 applies it to a
\* title that was stored cleaned
cleanAgain ==
  /\ pc = "cleaned"
  /\ recleaned' = cleanTestCaseTitle(cleaned, rawId)
  /\ pc' = "Done"
  /\ UNCHANGED <<rawTitle, rawId, cleaned, paging, analysis, inputs, rerun, remote, setup,
                 cursor, results, updates, calls, clock, output, exitCode, prompts>>

NextClean == cleanTitle \/ cleanAgain

SpecClean == InitClean /\ [][NextClean]_vars

\* r is s without the whitespace at its two ends, and nothing else of s is
\* missing or changed
TrimmedFrom(r, s) ==
  \E k \in 0..Len(s), m \in 0..Len(s) :
    /\ k <= m
    /\ r = SubSeq(s, k + 1, m)
    /\ \A i \in 1..k : s[i] \in Whitespace
    /\ \A i \in (m + 1)..Len(s) : s[i] \in Whitespace
    /\ r # <<>> => (r[1] \notin Whitespace /\ r[Len(r)] \notin Whitespace)

\* r is s without the whitespace at its start; the end of s is untouched
LeftTrimmedFrom(r, s) ==
  \E k \in 0..Len(s) :
    /\ r = SubSeq(s, k + 1, Len(s))
    /\ \A i \in 1..k : s[i] \in Whitespace
    /\ r # <<>> => r[1] \notin Whitespace

IdAtStart ==
  Len(rawTitle) >= Len(rawId) /\ SubSeq(rawTitle, 1, Len(rawId)) = rawId
AfterId == SubSeq(rawTitle, Len(rawId) + 1, Len(rawTitle))
Occurs(p, s) ==
  \E i \in 1..(Len(s) - Len(p) + 1) : SubSeq(s, i, i + Len(p) - 1) = p

\* C14 as stated: for a title id \o s the result is s without the whitespace
\* that follows the id, everything after it byte for byte as in s
C14_RestIntact ==
  (pc # "Idle" /\ IdAtStart) => LeftTrimmedFrom(cleaned, AfterId)

\* C14: for a title id \o s the result is s without the whitespace that
\* follows the id and without the whitespace at the end of s, what lies
\* between byte for byte as in s; the title id gives the empty string, and
\* no separator is needed between the id and the rest
C14_StripsIdAndTrims ==
  (pc # "Idle" /\ IdAtStart) =>
    /\ TrimmedFrom(cleaned, AfterId)
    /\ rawTitle = rawId => cleaned = <<>>
    /\ (AfterId # <<>> /\ \A i \in 1..Len(AfterId) : AfterId[i] \notin Whitespace)
         => cleaned = AfterId

\* The title "C1 a " has been cleaned to "a"
C14_Witness ==
  /\ pc = "cleaned"
  /\ rawId = <<"C", "1">>
  /\ rawTitle = <<"C", "1", " ", "a", " ">>
  /\ cleaned = <<"a">>

\* C15: when the title does not begin with the id, the result is the title
\* without the whitespace at its two ends: an id further in, after leading
\* whitespace or in another letter case stays; the empty title gives the
\* empty string
C15_OnlyTrimmed ==
  (pc # "Idle" /\ ~IdAtStart) =>
    /\ TrimmedFrom(cleaned, rawTitle)
    /\ rawTitle = <<>> => cleaned = <<>>
    /\ (Occurs(rawId, rawTitle) => Occurs(rawId, cleaned))

\* The title " C1 a" has been cleaned to "C1 a", which still begins with the id
C15_Witness ==
  /\ pc = "cleaned"
  /\ rawId = <<"C", "1">>
  /\ rawTitle = <<" ", "C", "1", " ", "a">>
  /\ cleaned = <<"C", "1", " ", "a">>

\* C16: when the id does not occur in the cleaned title, cleaning the cleaned
\* title again returns it unchanged
C16_Idempotent ==
  (pc = "Done" /\ ~Occurs(rawId, cleaned)) => recleaned = cleaned

\* "C1 a" was cleaned to "a", and "a" was cleaned to "a"
C16_Witness ==
  /\ pc = "Done"
  /\ rawId = <<"C", "1">>
  /\ rawTitle = <<"C", "1", " ", "a">>
  /\ cleaned = <<"a">>
  /\ recleaned = <<"a">>

\* ----------------------------------------------- analyzeTestFile on its own
\* A file is written as a sequence of snippets, one per line: a call of test
\* or it with a quoted literal, whose closing quote may be missing, or text
\* outside any call
Quotes == {"'", "\""}
TestCall == <<"t", "e", "s", "t", "(">>
ItCall == <<"i", "t", "(">>
LitC3a == <<"C", "3", " ", "a">>
LitC4Apostrophe == <<"C", "4", " ", "a", "'", "b">>

Snippet(call, quote, id, literal, closed) ==
  [call |-> call, quote |-> quote, id |-> id, literal |-> literal, closed |-> closed]
Snippets ==
  {Snippet("test", "'", <<"C", "1">>, LitC1a, TRUE),
   Snippet("test", "'", <<"C", "1">>, LitC1b, TRUE),
   Snippet("test", "\"", <<"C", "2">>, LitC2a, TRUE),
   Snippet("test", "'", <<>>, LitNoId, TRUE),
   Snippet("it", "'", <<"C", "3">>, LitC3a, TRUE),
   Snippet("text", "", <<"C", "3">>, LitC3a, TRUE),
   Snippet("test", "\"", <<"C", "4">>, LitC4Apostrophe, TRUE),
   Snippet("test", "'", <<"C", "2">>, LitC2a, FALSE),
   Snippet("test", "\"", <<>>, LitNoId, FALSE)}

\* The characters of one snippet, and of a file
Render(sn) ==
  (IF sn.call = "test" THEN TestCall \o <<sn.quote>>
   ELSE IF sn.call = "it" THEN ItCall \o <<sn.quote>>
   ELSE <<>>)
  \o sn.literal
  \o (IF sn.call # "text" /\ sn.closed THEN <<sn.quote, ")">> ELSE <<>>)
  \o <<"\n">>
RECURSIVE RenderAll(_)
RenderAll(sns) == IF sns = <<>> THEN <<>> ELSE Render(Head(sns)) \o RenderAll(Tail(sns))

\* A variant in which the literal runs up to the quote that opened it
RECURSIVE RunUpTo(_, _, _)
RunUpTo(s, i, quote) ==
  IF i > Len(s) \/ s[i] = quote THEN 0 ELSE 1 + RunUpTo(s, i + 1, quote)
RunToMatchingQuote(s, i) == RunUpTo(s, i, s[i - 1])

\* testRegex = /test\(['"]([^'"]+)['"]/g (324).
\* [^'"]+ : the number of characters from position i on that are not quotes
RECURSIVE NonQuoteRun(_, _)
NonQuoteRun(s, i) ==
  IF i > Len(s) \/ s[i] \in Quotes THEN 0 ELSE 1 + NonQuoteRun(s, i + 1)

\* A variant that takes the quote after any opening parenthesis
FollowsAnyCall(s, q) == q > 1 /\ s[q - 1] = "("

\* test\( : the quote at position q follows the text test(
FollowsTestCall(s, q) ==
  q > Len(TestCall) /\ SubSeq(s, q - Len(TestCall), q - 1) = TestCall

\* A variant that knows single quotes only
MatchesAtSingleQuote(s, q) ==
  /\ q <= Len(s)
  /\ s[q] = "'"
  /\ FollowsTestCall(s, q)
  /\ NonQuoteRun(s, q + 1) >= 1
  /\ q + NonQuoteRun(s, q + 1) + 1 <= Len(s)
  /\ s[q + NonQuoteRun(s, q + 1) + 1] = "'"

\* The pattern matches with its opening quote at position q: test(, a quote,
\* at least one character that is no quote, a quote
MatchesAt(s, q) ==
  /\ q <= Len(s)
  /\ s[q] \in Quotes
  /\ FollowsTestCall(s, q)
  /\ NonQuoteRun(s, q + 1) >= 1
  /\ q + NonQuoteRun(s, q + 1) + 1 <= Len(s)

NoMatch == [found |-> FALSE, group |-> <<>>, lastIndex |-> 0]

\* A variant without the g flag: every exec searches from the start
testRegexExecFromStart(s, last) ==
  LET qs == {q \in 1..Len(s) : MatchesAt(s, q)}
  IN IF qs = {} THEN NoMatch
     ELSE LET q == CHOOSE x \in qs : \A y \in qs : x <= y
              r == NonQuoteRun(s, q + 1)
          IN [found |-> TRUE, group |-> SubSeq(s, q + 1, q + r), lastIndex |-> 0]

\* testRegex.exec(content) with testRegex.lastIndex = last (327): the leftmost
\* match that starts at index last or later, its group 1 and the new
\* lastIndex; null resets lastIndex to 0
testRegexExec(s, last) ==
  LET qs == {q \in (last + Len(TestCall) + 1)..Len(s) : MatchesAt(s, q)}
  IN IF qs = {} THEN NoMatch
     ELSE LET q == CHOOSE x \in qs : \A y \in qs : x <= y
              r == NonQuoteRun(s, q + 1)
          IN [found |-> TRUE, group |-> SubSeq(s, q + 1, q + r),
              lastIndex |-> q + r + 1]

Sources == SeqsUpTo(Snippets, MaxSnippets)

InitAnalysis ==
  /\ snippets \in Sources
  /\ content = RenderAll(snippets)
  /\ lastIndex = 0
  /\ fileCases = <<>>
  /\ NoPaging /\ NoCleaning
  /\ env = GoodEnv /\ latency = 50 /\ files = <<>> /\ remote = <<>>
  /\ Idle /\ FirstRun

\* 318-325: the file is read and the pattern created; a read error is caught
\* at 343-346, reported, and answered with an empty Map
readTestFile ==
  /\ pc = "Idle"
  /\ \/ /\ pc' = "analyzing"
        /\ fileCases' = <<>>
        /\ lastIndex' = 0
        /\ UNCHANGED output
     \/ /\ pc' = "Done"
        /\ fileCases' = <<>>
        /\ output' = Append(output, "Error analyzing file")
        /\ UNCHANGED lastIndex
  /\ UNCHANGED <<snippets, content, paging, cleaning, inputs, rerun, remote, setup, cursor,
                 results, updates, calls, clock, exitCode, prompts>>

\* 327-340: one turn of the while loop; no match ends it and the Map is
\* returned
execTestRegex ==
  /\ pc = "analyzing"
  /\ LET testMatch == testRegexExec(content, lastIndex)
     IN /\ lastIndex' = testMatch.lastIndex
        /\ IF testMatch.found
           THEN /\ fileCases' = analyzeLiterals(<<testMatch.group>>, 1, fileCases)
                /\ pc' = "analyzing"
           ELSE /\ pc' = "Done"
                /\ UNCHANGED fileCases
  /\ UNCHANGED <<snippets, content, paging, cleaning, inputs, rerun, remote, setup, cursor,
                 results, updates, calls, clock, output, exitCode, prompts>>

NextAnalysis == readTestFile \/ execTestRegex

SpecAnalysis == InitAnalysis /\ [][NextAnalysis]_vars

\* ------------------------------------------------ claims about the analysis
QuoteFree(literal) == \A i \in 1..Len(literal) : literal[i] \notin Quotes
WellFormed ==
  \A i \in 1..Len(snippets) : snippets[i].closed /\ QuoteFree(snippets[i].literal)
TestsWithId ==
  {i \in 1..Len(snippets) : snippets[i].call = "test" /\ snippets[i].id # <<>>}
DistinctIds ==
  \A i, j \in TestsWithId : i # j => snippets[i].id # snippets[j].id
Returned == pc = "Done" /\ output = <<>>

\* C17: for a text of closed test calls, N of them with pairwise distinct ids,
\* and any other text, the Map returned has exactly N entries, one per id,
\* with title = cleanTestCaseTitle(literal, id) and originalTitle = the
\* literal; calls without id add nothing, the empty text gives the empty Map
C17_OneEntryPerTest ==
  (Returned /\ WellFormed /\ DistinctIds) =>
    /\ Len(fileCases) = Cardinality(TestsWithId)
    /\ \A i \in TestsWithId :
         \E k \in 1..Len(fileCases) :
           /\ fileCases[k].id = snippets[i].id
           /\ fileCases[k].title = cleanTestCaseTitle(snippets[i].literal, snippets[i].id)
           /\ fileCases[k].originalTitle = snippets[i].literal
    /\ content = <<>> => fileCases = <<>>

\* test('C1 a'), test('b'), test("C2  a") gave the entries C1 and C2
C17_Witness ==
  /\ Returned
  /\ Len(snippets) = 3
  /\ snippets[1].literal = LitC1a /\ snippets[1].call = "test"
  /\ snippets[2].literal = LitNoId /\ snippets[2].call = "test"
  /\ snippets[3].literal = LitC2a /\ snippets[3].call = "test"
  /\ WellFormed
  /\ Len(fileCases) = 2
  /\ fileCases[2].title = <<"a">>

\* C19: every entry of the Map was taken from the text between a quote that
\* directly follows test( and the next quote; in a text of closed calls the
\* literal of an it call and the text outside the calls give no entry
C19_FromQuotedLiteral(entry) ==
  LET r == Len(entry.originalTitle)
  IN \E q \in (Len(TestCall) + 1)..(Len(content) - r - 1) :
       /\ SubSeq(content, q - Len(TestCall), q - 1) = TestCall
       /\ content[q] \in Quotes
       /\ SubSeq(content, q + 1, q + r) = entry.originalTitle
       /\ \A i \in (q + 1)..(q + r) : content[i] \notin Quotes
       /\ content[q + r + 1] \in Quotes
       /\ Occurs(entry.id, entry.originalTitle)

C19_OnlyTestLiterals ==
  \A k \in 1..Len(fileCases) :
    /\ C19_FromQuotedLiteral(fileCases[k])
    /\ WellFormed =>
         \E i \in 1..Len(snippets) :
           /\ snippets[i].call = "test"
           /\ snippets[i].literal = fileCases[k].originalTitle
           /\ snippets[i].id = fileCases[k].id

\* it('C3 a'), test('C1 a') and the bare text C3 a gave the entry C1 alone
C19_Witness ==
  /\ Returned
  /\ Len(snippets) = 3
  /\ snippets[1].call = "it"
  /\ snippets[2].call = "test" /\ snippets[2].literal = LitC1a /\ snippets[2].closed
  /\ snippets[3].call = "text"
  /\ Len(fileCases) = 1
  /\ fileCases[1].id = <<"C", "1">>
\* C20: the analysis of any text, a text with a literal that is never closed
\* included, goes on turn by turn to its end and returns a Map, and the
\* script is not failed by it; a closed test call with an id that stands before the first
\* unclosed literal has its entry in that Map, with its own titles when no
\* other snippet carries the same id
C20_BeforeMalformed(i) == \A j \in 1..i : snippets[j].closed

C20_EarlierTestsKept ==
  Returned =>
    \A i \in TestsWithId :
      C20_BeforeMalformed(i) =>
        \E k \in 1..Len(fileCases) :
          /\ fileCases[k].id = snippets[i].id
          /\ (/\ QuoteFree(snippets[i].literal)
              /\ \A j \in 1..Len(snippets) : j # i => snippets[j].id # snippets[i].id)
               => fileCases[k].originalTitle = snippets[i].literal

\* Every turn of the loop either ends it or moves lastIndex forward, and
\* lastIndex never passes the end of the text: the loop has an end
C20_Turn ==
  pc = "analyzing" =>
    \/ pc' = "Done" /\ fileCases' = fileCases
    \/ pc' = "analyzing" /\ lastIndex < lastIndex' /\ lastIndex' <= Len(content)

C20_CompletesAndKeeps ==
  /\ [](exitCode = -1 /\ pc \in {"Idle", "analyzing", "Done"})
  /\ [][C20_Turn]_vars
  /\ []C20_EarlierTestsKept

\* test('C1 a'), then test("b without its closing quote, then test("C2  a"):
\* the Map returned holds C1 and nothing else
C20_Witness ==
  /\ Returned
  /\ Len(snippets) = 3
  /\ snippets[1].literal = LitC1a /\ snippets[1].closed /\ snippets[1].call = "test"
  /\ ~snippets[2].closed
  /\ snippets[3].literal = LitC2a /\ snippets[3].closed /\ snippets[3].call = "test"
  /\ Len(fileCases) = 1
  /\ fileCases[1].originalTitle = LitC1a

\* ------------------------------------------------ claims about the case table
\* The places <<file, position>> already scanned where a literal carries id
ScannedOccurrences(id) ==
  {p \in UNION {{<<f, l>> : l \in 1..Len(files[f])} : f \in 1..Len(files)} :
     p[1] < fileIdx /\ MatchId(files[p[1]][p[2]]) = id}
LastOccurrence(id) ==
  CHOOSE p \in ScannedOccurrences(id) :
    \A o \in ScannedOccurrences(id) :
      o[1] < p[1] \/ (o[1] = p[1] /\ o[2] <= p[2])
LiteralIds == {MatchId(lit) : lit \in Literals} \ {<<>>}

\* C18: an id found more than once, in one file or in several, has exactly
\* one entry in allTestCases, and that entry holds the titles and the file
\* of the occurrence found last
C18_LastWriteWins ==
  \A id \in LiteralIds :
    LET entries == {k \in 1..Len(allTestCases) : allTestCases[k].id = id}
    IN IF ScannedOccurrences(id) = {} THEN entries = {}
       ELSE /\ Cardinality(entries) = 1
            /\ \A k \in entries :
                 LET p == LastOccurrence(id)
                     lit == files[p[1]][p[2]]
                 IN /\ allTestCases[k].originalTitle = lit
                    /\ allTestCases[k].title = cleanTestCaseTitle(lit, id)
                    /\ allTestCases[k].filePath = p[1]

\* C1 a in the first file and C1 b in the second: the one entry for C1 is
\* the one of the second file
C18_Witness ==
  /\ files = <<(<<LitC1a>>), (<<LitC1b>>)>>
  /\ fileIdx = 3
  /\ Len(allTestCases) = 1
  /\ allTestCases[1].filePath = 2
  /\ allTestCases[1].title = <<"b">>

\* ------------------------------------------------------- claims C21 to C30
\* C21: a run that is configured but has no TESTRAIL_PROJECT_ID sends
\* get_projects requests only, page after page from offset 0; it scans no
\* file, looks up no case, asks nothing and updates nothing; it ends with
\* exit code 1, after the list of projects when every page arrived
C21_NoProjectId ==
  env.testDirPath /\ env.missingVars = {} /\ ~env.projectId

C21_ListsProjectsThenAborts ==
  (C21_NoProjectId /\ pc # "Idle") =>
    /\ pc \in {"get_projects", "Exited"}
    /\ \A i \in 1..Len(calls) :
         calls[i].op = "get_projects" /\ calls[i].offset = (i - 1) * PageLimit
    /\ fileIdx = 1 /\ allTestCases = <<>>
    /\ prompts = 0
    /\ pc = "Exited" =>
         /\ exitCode = 1
         /\ output \in {<<"Script failed">>, <<"available projects", "Script failed">>}

\* Two pages of projects were listed, then the run ended with exit code 1
C21_Witness ==
  /\ ~env.projectId
  /\ files # <<>>
  /\ pc = "Exited"
  /\ Len(calls) = 2
  /\ Len(allResults) = PageLimit + 1
  /\ output = <<"available projects", "Script failed">>

\* C22: at every moment at most one request is outstanding; while main waits
\* for a response that request is the last one sent, and during a pause or
\* the prompt none is; a request, a pause or the prompt starts only on a step
\* that leaves no earlier request unanswered
RequestPcs ==
  {"get_project", "get_projects", "get_suites", "get_case", "get_cases", "update_case"}
WaitPcs == {"delay200", "delay500", "prompt"}
Outstanding == {i \in 1..Len(calls) : now < calls[i].at + latency}

C22_OneOutstanding ==
  /\ Cardinality(Outstanding) <= 1
  /\ pc \in RequestPcs => Outstanding = {Len(calls)}
  /\ pc \in WaitPcs \cup {"Done", "Exited", "ScanningFiles"} => Outstanding = {}
  /\ \A i \in 2..Len(calls) : calls[i].at >= calls[i - 1].at + latency

C22_Start ==
  (calls' # calls \/ (pc' \in WaitPcs /\ pc' # pc)) =>
    /\ Len(calls') <= Len(calls) + 1
    /\ SubSeq(calls', 1, Len(calls)) = calls
    /\ pc \in RequestPcs =>
         /\ lastReturn' = calls[Len(calls)].at + latency
         /\ now' = lastReturn'
    /\ \A i \in 1..Len(calls) : now' >= calls[i].at + latency

C22_Sequential == []C22_OneOutstanding /\ [][C22_Start]_vars

\* Two lookups and one update have been answered, one after the other, and
\* the pause after the update runs
C22_Witness ==
  /\ pc = "delay500"
  /\ Len(calls) >= 5
  /\ Outstanding = {}
  /\ calls[Len(calls)].op = "update_case"

\* ----------------------------------- analyzeTestFile 328-337 on one literal
\* The literal the pattern captured: any title that is not empty
InitLiteral ==
  /\ rawTitle \in CleanTitles \ {<<>>}
  /\ rawId = <<>> /\ cleaned = <<>> /\ recleaned = <<>>
  /\ NoPaging /\ NoAnalysis
  /\ env = GoodEnv /\ latency = 50 /\ files = <<>> /\ remote = <<>>
  /\ Idle /\ FirstRun

\* 328-338: the id is looked for in the literal and the entry is set
registerLiteral ==
  /\ pc = "Idle"
  /\ fileCases' = analyzeLiterals(<<rawTitle>>, 1, <<>>)
  /\ pc' = "Done"
  /\ UNCHANGED <<snippets, content, lastIndex, cleaning, paging, inputs, rerun, remote, setup,
                 cursor, results, updates, calls, clock, output, exitCode, prompts>>

NextLiteral == registerLiteral

SpecLiteral == InitLiteral /\ [][NextLiteral]_vars

\* C23: the id registered for a literal is the leftmost C followed by digits,
\* with all the digits that follow, wherever in the literal it stands, and a
\* literal without such a substring registers nothing; when the id does not
\* stand at the start of the literal the title of the entry still holds it
C23_IdStartsAt(s, p) == p < Len(s) /\ s[p] = "C" /\ s[p + 1] \in Digit
C23_IdAt(s, p) ==
  LET ends == {e \in (p + 1)..Len(s) :
                 /\ \A i \in (p + 1)..e : s[i] \in Digit
                 /\ e = Len(s) \/ s[e + 1] \notin Digit}
  IN SubSeq(s, p, CHOOSE e \in ends : TRUE)

C23_LeftmostId ==
  (pc = "Done" /\ rawTitle # <<>>) =>
    LET starts == {p \in 1..Len(rawTitle) : C23_IdStartsAt(rawTitle, p)}
    IN IF starts = {} THEN fileCases = <<>>
       ELSE LET p == CHOOSE x \in starts : \A y \in starts : x <= y
            IN /\ Len(fileCases) = 1
               /\ fileCases[1].id = C23_IdAt(rawTitle, p)
               /\ fileCases[1].originalTitle = rawTitle
               /\ p > 1 => Occurs(fileCases[1].id, fileCases[1].title)

\* The literal "a C12" registered C12 with the title "a C12"
C23_Witness ==
  /\ pc = "Done"
  /\ rawTitle = <<"a", " ", "C", "1", "2">>
  /\ Len(fileCases) = 1
  /\ fileCases[1].id = <<"C", "1", "2">>
  /\ fileCases[1].title = rawTitle

\* C24: the answer to get_case decides: status 200 returns the record; status
\* 400 starts the search with the first suite; any other status fails the
\* lookup without a further request.  The search lists suite after suite in
\* order, page by page; it returns the first listed case with the numeric id;
\* a suite whose listing failed or held no such case is followed by the next
\* suite; the lookup fails only past the last suite
C24_CaseNumber == caseNumberOf(allTestCases[caseIdx].id)
C24_LookupReturns == processedCases' = processedCases + 1 /\ calls' = calls
C24_Lists(i, off) ==
  /\ pc' = "get_cases"
  /\ suiteIdx' = i
  /\ processedCases' = processedCases
  /\ calls' = Append(calls, calls'[Len(calls')])
  /\ calls'[Len(calls')].op = "get_cases"
  /\ calls'[Len(calls')].arg = NumToString(projectInfo.suites[i].id)
  /\ calls'[Len(calls')].offset = off

C24_DirectAnswer ==
  pc = "get_case" =>
    LET status == remote'[C24_CaseNumber].status
    IN IF status = 200 THEN C24_LookupReturns /\ testRailCase'.found
       ELSE IF status = 400 /\ projectInfo.suites # <<>> THEN C24_Lists(1, 0)
       ELSE C24_LookupReturns /\ ~testRailCase'.found

C24_SearchStep ==
  pc = "get_cases" =>
    \/ C24_Lists(suiteIdx, offset + PageLimit)
    \/ suiteIdx < Len(projectInfo.suites) /\ C24_Lists(suiteIdx + 1, 0)
    \/ /\ C24_LookupReturns
       /\ testRailCase'.found
       /\ \E i \in 1..Len(allResults') :
            /\ NumToString(allResults'[i].id) = C24_CaseNumber
            /\ \A j \in 1..(i - 1) : NumToString(allResults'[j].id) # C24_CaseNumber
            /\ testRailCase' = FoundCase(allResults'[i])
    \/ /\ C24_LookupReturns
       /\ ~testRailCase'.found
       /\ suiteIdx = Len(projectInfo.suites)

C24_SearchOnlyAfter400 ==
  pc = "get_cases" =>
    /\ remote[C24_CaseNumber].status = 400
    /\ suiteIdx \in 1..Len(projectInfo.suites)

C24_FallbackProtocol ==
  /\ []C24_SearchOnlyAfter400
  /\ [][C24_DirectAnswer /\ C24_SearchStep]_vars

\* After a 400 the first suite gave nothing and the second suite held the case
C24_Witness ==
  /\ pc = "delay200"
  /\ caseIdx = 1
  /\ remote[C24_CaseNumber].status = 400
  /\ suiteIdx = 2
  /\ testRailCase.found
  /\ Len(calls) = 5

\* ------------------------------------------- the script run a second time
\* A title that begins with the id of its case and goes on with an id of
\* which the first is the beginning: test('C1 C12')
LitC1C12 == <<"C", "1", " ", "C", "1", "2">>
TwiceFiles == {<<lits>> : lits \in SeqsUpTo({LitC1a, LitC2a, LitC1C12}, MaxTests)}

InitTwice ==
  /\ NoPaging /\ NoCleaning /\ NoAnalysis
  /\ env \in {GoodEnv, [GoodEnv EXCEPT !.projectId = FALSE]}
  /\ latency = 50
  /\ files \in TwiceFiles
  /\ remote = <<>>
  /\ Idle /\ FirstRun

\* The first run has updated every difference; the operator starts the
\* script again on the same files, against the service as the first run left it
runAgain ==
  /\ pc = "Done"
  /\ run = 1
  /\ shouldUpdate /\ successCount > 0 /\ failCount = 0
  /\ run' = 2
  /\ updated' = {differences[i].id : i \in 1..Len(differences)}
  /\ pc' = "Idle"
  /\ fileIdx' = 1
  /\ allTestCases' = <<>>
  /\ project' = 0
  /\ projectInfo' = [project_id |-> 0, suites |-> <<>>]
  /\ offset' = 0
  /\ allResults' = <<>>
  /\ caseIdx' = 0
  /\ suiteIdx' = 0
  /\ testRailCase' = NullCase
  /\ differences' = <<>>
  /\ errors' = <<>>
  /\ processedCases' = 0
  /\ answer' = <<>>
  /\ shouldUpdate' = FALSE
  /\ updIdx' = 0
  /\ successCount' = 0
  /\ failCount' = 0
  /\ calls' = <<>>
  /\ now' = 0
  /\ lastReturn' = -1
  /\ output' = <<>>
  /\ exitCode' = -1
  /\ prompts' = 0
  /\ UNCHANGED <<unit, inputs, remote>>

NextTwice == Next \/ runAgain

SpecTwice == InitTwice /\ [][NextTwice]_vars

\* C25: in the run that follows a run whose updates all succeeded, a case
\* updated by that run, for which the service now returns the title that was
\* sent, is in no Difference
C25_Converges ==
  run = 2 =>
    \A i \in 1..Len(differences) :
      ~(differences[i].id \in updated
        /\ differences[i].testRailTitle = differences[i].fileTitle)

\* C26: at every moment no id is twice in the error list, twice in the
\* difference list or in both, every id in them belongs to a case already
\* looked up, and processedCases counts the lookups that have returned; once
\* the comparison is over every case of the table was looked up exactly once,
\* in table order, and is in the error list, in the difference list or in
\* neither
C26_Ids(list) == {list[i].id : i \in 1..Len(list)}
C26_LookedUp == {allTestCases[i].id : i \in 1..processedCases}
C26_ComparisonOver == pc \in {"prompt", "update_case", "delay500", "Done"}

C26_Partition ==
  /\ Cardinality(C26_Ids(errors)) = Len(errors)
  /\ Cardinality(C26_Ids(differences)) = Len(differences)
  /\ C26_Ids(errors) \cap C26_Ids(differences) = {}
  /\ processedCases <= Len(allTestCases)
  /\ C26_Ids(errors) \cup C26_Ids(differences) \subseteq C26_LookedUp
  /\ processedCases =
       Len(CallsOf({"get_case"})) - (IF pc \in LookupOps THEN 1 ELSE 0)
  /\ \A k \in 1..Len(CallsOf({"get_case"})) :
       CallsOf({"get_case"})[k].arg = caseNumberOf(allTestCases[k].id)
  /\ C26_ComparisonOver =>
       /\ processedCases = Len(allTestCases)
       /\ Len(CallsOf({"get_case"})) = Len(allTestCases)
       /\ Len(errors) + Len(differences) <= Len(allTestCases)

\* Two cases were looked up: one is in the error list, the other in the
\* difference list, and the operator is asked
C26_Witness ==
  /\ pc = "prompt"
  /\ processedCases = 2
  /\ Len(errors) = 1
  /\ Len(differences) = 1

\* C27: the raw title of an entry is never empty and holds no quote of either
\* kind; for a test call that stands before any unclosed literal it is the
\* text from the opening quote up to the first quote of either kind, so a
\* literal in double quotes with an apostrophe inside is taken up to the
\* apostrophe only
C27_UpToFirstQuote(literal) ==
  LET n == CHOOSE m \in 0..Len(literal) :
             /\ \A i \in 1..m : literal[i] \notin {"'", "\""}
             /\ m < Len(literal) => literal[m + 1] \in {"'", "\""}
  IN SubSeq(literal, 1, n)

C27_StopsAtEitherQuote ==
  /\ \A k \in 1..Len(fileCases) :
       /\ fileCases[k].originalTitle # <<>>
       /\ QuoteFree(fileCases[k].originalTitle)
  /\ Returned =>
       \A i \in TestsWithId :
         (/\ C20_BeforeMalformed(i)
          /\ \A j \in 1..Len(snippets) : j # i => snippets[j].id # snippets[i].id)
           => \E k \in 1..Len(fileCases) :
                /\ fileCases[k].id = snippets[i].id
                /\ fileCases[k].originalTitle = C27_UpToFirstQuote(snippets[i].literal)

\* test("C4 a'b") gave the entry C4 with the raw title "C4 a"
C27_Witness ==
  /\ Returned
  /\ Len(snippets) >= 1
  /\ snippets[1].literal = LitC4Apostrophe /\ snippets[1].quote = "\""
  /\ Len(fileCases) >= 1
  /\ fileCases[1].id = <<"C", "4">>
  /\ fileCases[1].originalTitle = <<"C", "4", " ", "a">>
  /\ fileCases[1].title = <<"a">>

\* C28: the answer confirms exactly when it is one letter y, in either case,
\* with nothing but white space around it; every other answer, "yes" and the
\* empty answer included, declines: the run ends with no update call at all
C28_IsLetterY(ans) ==
  \E i \in 1..Len(ans) :
    /\ ans[i] \in {"y", "Y"}
    /\ \A j \in 1..Len(ans) : j # i => ans[j] \in {" ", "\t", "\n"}
C28_Answered == prompts = 1 /\ pc # "prompt"

C28_OnlyLetterYConfirms ==
  C28_Answered =>
    /\ shouldUpdate <=> C28_IsLetterY(answer)
    /\ C28_IsLetterY(answer) =>
         /\ Len(UpdateCalls) >= 1
         /\ pc \in {"update_case", "delay500", "Done"}
    /\ ~C28_IsLetterY(answer) =>
         /\ Len(UpdateCalls) = 0
         /\ pc = "Done"
         /\ successCount = 0 /\ failCount = 0

\* The operator answered "Y " and the updates were sent; the empty answer
\* would have ended the run
C28_Witness ==
  /\ pc = "Done"
  /\ answer = <<"Y", " ">>
  /\ shouldUpdate
  /\ Len(UpdateCalls) = Len(differences)

\* C29: whatever a lookup returned, the comparison goes on: once the first
\* case has been looked up the run is never ended as failed, and when it stops
\* every case of the table has been looked up
C29_LoopSurvivesLookup ==
  Len(CallsOf({"get_case"})) >= 1 =>
    /\ pc # "Exited"
    /\ pc = "Done" => processedCases = Len(allTestCases)

\* ------------------------------------------------------- the run under fairness
\* makeApiCall 121-154: axios answers or fails, and the await resumes
RemoteCallReturns ==
  \/ getProjectResponse
  \/ getProjectsResponse
  \/ getSuitesResponse
  \/ getCaseResponse
  \/ getCasesResponse
  \/ updateCaseResponse

\* The steps main takes by itself, and the timers of setTimeout (407, 425, 466)
LocalStep ==
  \/ validateEnvironment
  \/ ScanFile
  \/ StartComparing
  \/ compareDelayElapsed
  \/ updateDelayElapsed

\* Every request is answered, the operator answers the question, and the event
\* loop runs what is ready
SpecFair ==
  /\ Init
  /\ [][Next]_vars
  /\ WF_vars(RemoteCallReturns)
  /\ WF_vars(answerPrompt)
  /\ WF_vars(LocalStep)

\* C30: every run comes to its end, Done or the fatal exit; a request that
\* continues a paginated fetch asks for the offset of the request before it
\* plus the limit, a fetch starts at offset 0, and no request goes beyond the
\* pages the service holds
C30_PagedPcs == {"get_projects", "get_suites", "get_cases"}
C30_ContinuesFetch == pc \in C30_PagedPcs /\ pc' = pc /\ suiteIdx' = suiteIdx

C30_PageStep ==
  Len(calls') > Len(calls) =>
    /\ Len(calls') = Len(calls) + 1
    /\ IF C30_ContinuesFetch
       THEN /\ calls'[Len(calls')].op = calls[Len(calls)].op
            /\ calls'[Len(calls')].arg = calls[Len(calls)].arg
            /\ calls'[Len(calls')].offset = calls[Len(calls)].offset + PageLimit
       ELSE calls'[Len(calls')].offset = 0

C30_OffsetsInRange ==
  \A i \in 1..Len(calls) :
    \E k \in 0..(MaxPages - 1) : calls[i].offset = k * PageLimit

C30_Terminates ==
  /\ <>(pc \in {"Done", "Exited"})
  /\ [][C30_PageStep]_vars
  /\ []C30_OffsetsInRange

\* A run that searched a suite for a case, asked the operator and updated a
\* case has come to its end
C30_Witness ==
  /\ pc = "Done"
  /\ \E i \in 1..Len(calls) : calls[i].op = "get_cases"
  /\ prompts = 1
  /\ Len(UpdateCalls) >= 1

====
